---- MODULE Spec2Model ----
(***************************************************************************)
(* Session state machine of the Home component (src/src/pages/Home.tsx):   *)
(* document upload with simulated progress, document deletion, query       *)
(* submission, suggested-question selection and chat clearing.             *)
(*                                                                         *)
(* Texts (the textarea value, message contents) are sequences of tokens so *)
(* that String.prototype.trim can be computed.  An optional value (null or *)
(* undefined in the source) is the empty sequence, a present value v is    *)
(* the one-element sequence <<v>>.  Error messages are TLA+ strings.       *)
(***************************************************************************)
EXTENDS Integers, Sequences, FiniteSets, TLC

\* ------------------------------------------------------------------ bounds
MaxLen == 2          \* longest text the user types
MaxSuggestion == 1   \* how many of the suggested questions are clicked
MaxPending == 1      \* suggestion selections whose timers are still pending
MaxMsgs == 4         \* messages plus outstanding queries
MaxDocs == 2         \* documents plus files of outstanding uploads
MaxUploads == 2      \* outstanding uploads plus pending progress resets
MaxFiles == 2        \* files of one upload
MaxId == 2           \* distinct values Math.random() ids are drawn from
MaxList == 3         \* documents of a list the removal is applied to

\* ------------------------------------------------------------------ values
Absent == <<>>
Some(v) == <<v>>

Chars == {"a", " "}
Whitespace == {" "}
Texts == UNION {[1..n -> Chars] : n \in 0..MaxLen}

Ids == 1..MaxId

\* SUGGESTED_QUESTIONS, each question abbreviated to one token
SUGGESTED_QUESTIONS ==
  << <<"What are the main topics">>, <<"Can you summarize">>,
     <<"What are the most important">>, <<"How do these documents relate">> >>

Min(a, b) == IF a < b THEN a ELSE b

\* String.prototype.trim
RECURSIVE trimStart(_)
trimStart(s) ==
  IF s # <<>> /\ Head(s) \in Whitespace THEN trimStart(Tail(s)) ELSE s

RECURSIVE trimEnd(_)
trimEnd(s) ==
  IF s # <<>> /\ s[Len(s)] \in Whitespace
  THEN trimEnd(SubSeq(s, 1, Len(s) - 1))
  ELSE s

trim(s) == trimEnd(trimStart(s))

\* JavaScript truthiness of a string
Truthy(str) == str # ""

\* a || b on optional strings: a when present and non-empty, else b
OrElse(opt, dflt) == IF opt # Absent /\ Truthy(opt[1]) THEN opt[1] ELSE dflt

\* the files a user can pick: File objects reduced to name, size and MIME type
PdfFiles == {[name |-> "x.pdf", size |-> 1, type |-> "application/pdf"]}
OtherFiles == {[name |-> "n.txt", size |-> 2, type |-> "text/plain"]}
FileLists(S) == UNION {[1..n -> S] : n \in 0..MaxFiles}

\* what uploadFiles can do: resolve with {success, error?} or reject
UploadOutcomes ==
  {[thrown |-> FALSE, success |-> TRUE, error |-> Absent, isError |-> FALSE, message |-> ""]}
  \cup {[thrown |-> FALSE, success |-> FALSE, error |-> e, isError |-> FALSE, message |-> ""] :
          e \in {Absent, Some(""), Some("too large")}}
  \cup {[thrown |-> TRUE, success |-> FALSE, error |-> Absent, isError |-> TRUE, message |-> m] :
          m \in {"", "network"}}
  \cup {[thrown |-> TRUE, success |-> FALSE, error |-> Absent, isError |-> FALSE, message |-> ""]}

\* result.response of callAIAgent: absent, a string, an object with an
\* optional result, or a value that is neither (a number)
NoResult == [answer |-> Absent, sources |-> Absent, confidence |-> Absent,
             related_topics |-> Absent, follow_up_questions |-> Absent]
Payloads ==
  { [kind |-> "absent", str |-> <<>>, result |-> Absent],
    [kind |-> "string", str |-> <<>>, result |-> Absent],
    [kind |-> "string", str |-> <<"Y">>, result |-> Absent],
    [kind |-> "number", str |-> <<>>, result |-> Absent],
    [kind |-> "object", str |-> <<>>, result |-> Absent],
    [kind |-> "object", str |-> <<>>,
     result |-> Some([NoResult EXCEPT !.answer = Some(<<"X">>), !.sources = Some(<<>>)])],
    [kind |-> "object", str |-> <<>>,
     result |-> Some([NoResult EXCEPT !.answer = Some(<<>>)])] }

\* the test result.response !== undefined in place of truthiness
TruthyPayloadDefined(p) == p.kind # "absent"

\* JavaScript truthiness of result.response
TruthyPayload(p) ==
  CASE p.kind = "absent" -> FALSE
    [] p.kind = "string" -> p.str # <<>>
    [] OTHER -> TRUE

\* what callAIAgent can do: resolve with {success, error?, response?} or reject
QueryOutcomes ==
  {r \in [thrown : {FALSE}, success : {TRUE},
          error : {Absent, Some(""), Some("agent down")}, response : Payloads,
          isError : {FALSE}, message : {""}] :
     r.error = Absent \/ ~TruthyPayload(r.response)}
  \cup {[thrown |-> FALSE, success |-> FALSE, error |-> e, response |-> CHOOSE p \in Payloads : p.kind = "absent",
         isError |-> FALSE, message |-> ""] : e \in {Absent, Some("agent down")}}
  \cup {[thrown |-> TRUE, success |-> FALSE, error |-> Absent, response |-> CHOOSE p \in Payloads : p.kind = "absent",
         isError |-> TRUE, message |-> m] : m \in {"", "network"}}
  \cup {[thrown |-> TRUE, success |-> FALSE, error |-> Absent, response |-> CHOOSE p \in Payloads : p.kind = "absent",
         isError |-> FALSE, message |-> ""]}

\* ------------------------------------------------------------------- state
VARIABLES
  documents,       \* useState<UploadedDocument[]>
  messages,        \* useState<Message[]>
  input,           \* useState('')
  isLoading,       \* useState(false)
  uploadProgress,  \* useState(0)
  isUploading,     \* useState(false)
  error,           \* useState<string | null>: Absent or Some(message)
  uploads,         \* handleUpload calls not yet over: files, whether the interval is
                   \* alive, whether uploadFiles has settled
  resetTimers,     \* pending setTimeout(() => setUploadProgress(0), 1000)
  calls,           \* outstanding callAIAgent calls: the text each was given
  pending,         \* handleSelectSuggestion timers with the closure each captured
  op               \* the handler that ran last and what it was given

vars == <<documents, messages, input, isLoading, uploadProgress, isUploading,
          error, uploads, resetTimers, calls, pending, op>>

docVars == <<documents, uploadProgress, isUploading, uploads, resetTimers>>
chatVars == <<messages, input, isLoading, calls, pending>>

Init ==
  /\ documents = <<>>
  /\ messages = <<>>
  /\ input = <<>>
  /\ isLoading = FALSE
  /\ uploadProgress = 0
  /\ isUploading = FALSE
  /\ error = Absent
  /\ uploads = <<>>
  /\ resetTimers = 0
  /\ calls = <<>>
  /\ pending = <<>>
  /\ op = [name |-> "init"]

RemoveAt(s, i) == SubSeq(s, 1, i - 1) \o SubSeq(s, i + 1, Len(s))

\* ------------------------------------------------------------ upload side
\* Math.random() * 30 lies in [0, 30): the draws the model takes
Increments == {0, 15, 29}
ProgressStop == 90
ProgressDone == 100

\* the handleUpload calls still at their await
Outstanding == SelectSeq(uploads, LAMBDA u : ~u.settled)

FilesInFlight == IF Outstanding = <<>> THEN 0
                 ELSE LET n[i \in 0..Len(Outstanding)] ==
                            IF i = 0 THEN 0 ELSE n[i - 1] + Len(Outstanding[i].files)
                      IN n[Len(Outstanding)]

\* handleUpload that also empties the draft of the textarea
handleUploadClearsDraft(files) ==
  /\ Len(uploads) + resetTimers < MaxUploads
  /\ Len(documents) + FilesInFlight + Len(files) <= MaxDocs
  /\ isUploading' = TRUE
  /\ uploadProgress' = 0
  /\ error' = Absent
  /\ uploads' = Append(uploads, [files |-> files, interval |-> TRUE,
                                 settled |-> FALSE])
  /\ input' = <<>>
  /\ UNCHANGED <<documents, resetTimers>>
  /\ UNCHANGED <<messages, isLoading, calls, pending>>

\* handleUpload up to its await: the three state writes, the interval and
\* the uploadFiles call
handleUpload(files) ==
  /\ Len(uploads) + resetTimers < MaxUploads
  /\ Len(documents) + FilesInFlight + Len(files) <= MaxDocs
  /\ isUploading' = TRUE
  /\ uploadProgress' = 0
  /\ error' = Absent
  /\ uploads' = Append(uploads, [files |-> files, interval |-> TRUE,
                                 settled |-> FALSE])
  /\ UNCHANGED <<documents, resetTimers>>
  /\ UNCHANGED chatVars

\* handleDrop: keeps the PDF files and uploads them when any is left
handleDrop(dropped) ==
  LET files == SelectSeq(dropped, LAMBDA f : f.type = "application/pdf")
  IN /\ Len(files) > 0
     /\ handleUpload(files)
     /\ op' = [name |-> "handleDrop"]

\* handleFileSelect: uploads whatever the picker returned
handleFileSelect(files) ==
  /\ handleUpload(files)
  /\ op' = [name |-> "handleFileSelect"]

\* one tick of progressInterval of the i-th upload; the interval outlives
\* its upload when uploadFiles rejected, until a tick finds 90 or more
progressTick(i, inc) ==
  /\ i \in 1..Len(uploads)
  /\ uploads[i].interval
  /\ IF uploadProgress >= ProgressStop
     THEN /\ uploads' = IF uploads[i].settled THEN RemoveAt(uploads, i)
                        ELSE [uploads EXCEPT ![i].interval = FALSE]
          /\ uploadProgress' = uploadProgress
     ELSE /\ uploads' = uploads
          /\ uploadProgress' = uploadProgress + inc
  /\ op' = [name |-> "progressTick", settled |-> uploads[i].settled]
  /\ UNCHANGED <<documents, isUploading, error, resetTimers>>
  /\ UNCHANGED chatVars

\* newDocs mapping the files in reverse order
newDocsReversed(files, ids) ==
  [k \in 1..Len(files) |->
     [id |-> ids[k], name |-> files[Len(files) + 1 - k].name,
      size |-> files[Len(files) + 1 - k].size]]

\* newDocs: one document per file, with a random id
newDocs(files, ids) ==
  [k \in 1..Len(files) |->
     [id |-> ids[k], name |-> files[k].name, size |-> files[k].size]]

\* handleUpload after its await with setDocuments(newDocs) in place of the
\* functional update: the list is replaced by the documents of this upload
uploadSettledOverwrite(i, r) ==
  /\ i \in 1..Len(uploads)
  /\ ~uploads[i].settled
  /\ IF r.thrown
     THEN /\ uploads' = IF uploads[i].interval
                        THEN [uploads EXCEPT ![i].settled = TRUE]
                        ELSE RemoveAt(uploads, i)
          /\ error' = Some(IF r.isError THEN r.message ELSE "Upload failed")
          /\ UNCHANGED <<uploadProgress, documents, resetTimers>>
     ELSE IF r.success
     THEN /\ uploads' = RemoveAt(uploads, i)
          /\ uploadProgress' = ProgressDone
          /\ \E ids \in [1..Len(uploads[i].files) -> Ids] :
               documents' = newDocs(uploads[i].files, ids)
          /\ resetTimers' = resetTimers + 1
          /\ error' = error
     ELSE /\ uploads' = RemoveAt(uploads, i)
          /\ error' = Some(OrElse(r.error, "Upload failed"))
          /\ UNCHANGED <<uploadProgress, documents, resetTimers>>
  /\ isUploading' = FALSE
  /\ op' = [name |-> "uploadSettled", ok |-> (~r.thrown /\ r.success),
            n |-> Len(uploads[i].files)]
  /\ UNCHANGED chatVars

\* handleUpload after its await, for the i-th upload: clearInterval is
\* reached when uploadFiles resolved and skipped when it rejected
uploadSettled(i, r) ==
  /\ i \in 1..Len(uploads)
  /\ ~uploads[i].settled
  /\ IF r.thrown
     THEN /\ uploads' = IF uploads[i].interval
                        THEN [uploads EXCEPT ![i].settled = TRUE]
                        ELSE RemoveAt(uploads, i)
          /\ error' = Some(IF r.isError THEN r.message ELSE "Upload failed")
          /\ UNCHANGED <<uploadProgress, documents, resetTimers>>
     ELSE IF r.success
     THEN /\ uploads' = RemoveAt(uploads, i)
          /\ uploadProgress' = ProgressDone
          /\ \E ids \in [1..Len(uploads[i].files) -> Ids] :
               documents' = documents \o newDocs(uploads[i].files, ids)
          /\ resetTimers' = resetTimers + 1
          /\ error' = error
     ELSE /\ uploads' = RemoveAt(uploads, i)
          /\ error' = Some(OrElse(r.error, "Upload failed"))
          /\ UNCHANGED <<uploadProgress, documents, resetTimers>>
  /\ isUploading' = FALSE
  /\ op' = [name |-> "uploadSettled", ok |-> (~r.thrown /\ r.success),
            n |-> Len(uploads[i].files)]
  /\ UNCHANGED chatVars

\* setTimeout(() => setUploadProgress(0), 1000)
progressReset ==
  /\ resetTimers > 0
  /\ resetTimers' = resetTimers - 1
  /\ uploadProgress' = 0
  /\ op' = [name |-> "progressReset"]
  /\ UNCHANGED <<documents, isUploading, error, uploads>>
  /\ UNCHANGED chatVars

\* a removal by prev.splice(prev.findIndex(...), 1): the first match goes, and
\* the last document when there is no match (findIndex gives -1)
removeDocumentSplice(docs, id) ==
  IF docs = <<>> THEN docs
  ELSE IF \E k \in 1..Len(docs) : docs[k].id = id
  THEN RemoveAt(docs, CHOOSE k \in 1..Len(docs) :
                        /\ docs[k].id = id
                        /\ \A j \in 1..(k - 1) : docs[j].id # id)
  ELSE RemoveAt(docs, Len(docs))

\* the filter with its test inverted: prev.filter(doc => doc.id === id)
removeDocumentKeep(docs, id) == SelectSeq(docs, LAMBDA doc : doc.id = id)

\* prev.filter(doc => doc.id !== id)
removeDocument(docs, id) == SelectSeq(docs, LAMBDA doc : doc.id # id)

\* handleDeleteDocument(id)
handleDeleteDocument(id) ==
  /\ documents' = removeDocument(documents, id)
  /\ op' = [name |-> "handleDeleteDocument", id |-> id,
            removed |-> Len(documents) - Len(removeDocument(documents, id))]
  /\ UNCHANGED <<uploadProgress, isUploading, error, uploads, resetTimers>>
  /\ UNCHANGED chatVars

\* the delete button of the i-th listed document
deleteButton(i) ==
  /\ i \in 1..Len(documents)
  /\ handleDeleteDocument(documents[i].id)

\* -------------------------------------------------------------- chat side
\* the state handleSubmit reads and writes
Chat == [messages |-> messages, input |-> input, isLoading |-> isLoading,
         error |-> error, calls |-> calls]

userMessage(id, text) ==
  [id |-> id, type |-> "user", content |-> text, sources |-> Absent,
   confidence |-> Absent, relatedTopics |-> Absent, followUpQuestions |-> Absent]

\* handleSubmit with the blank test done without trim()
handleSubmitNoTrim(c, seenInput, seenLoading, id) ==
  IF seenInput = <<>> \/ seenLoading
  THEN c
  ELSE [c EXCEPT !.messages = Append(@, userMessage(id, seenInput)),
                 !.input = <<>>,
                 !.isLoading = TRUE,
                 !.error = Absent,
                 !.calls = Append(@, seenInput)]

\* handleSubmit up to its await, run by a handler whose closure holds
\* seenInput and seenLoading; id is the id Math.random() gives the message
handleSubmit(c, seenInput, seenLoading, id) ==
  IF trim(seenInput) = <<>> \/ seenLoading
  THEN c
  ELSE [c EXCEPT !.messages = Append(@, userMessage(id, seenInput)),
                 !.input = <<>>,
                 !.isLoading = TRUE,
                 !.error = Absent,
                 !.calls = Append(@, seenInput)]

SetChat(c) ==
  /\ Len(c.messages) + Len(c.calls) <= MaxMsgs
  /\ messages' = c.messages
  /\ input' = c.input
  /\ isLoading' = c.isLoading
  /\ error' = c.error
  /\ calls' = c.calls

\* disabled={isLoading || documents.length === 0} of the textarea
textareaDisabled == isLoading \/ Len(documents) = 0

\* onChange of the textarea
setInput(t) ==
  /\ ~textareaDisabled
  /\ input' = t
  /\ op' = [name |-> "setInput"]
  /\ UNCHANGED <<messages, isLoading, error, calls, pending>>
  /\ UNCHANGED docVars

\* onKeyDown of the textarea with Ctrl/Cmd+Enter
submitKey ==
  /\ ~textareaDisabled
  /\ \E id \in Ids : SetChat(handleSubmit(Chat, input, isLoading, id))
  /\ op' = [name |-> "submit", seen |-> <<input>>]
  /\ UNCHANGED pending
  /\ UNCHANGED docVars

\* onClick of the Search button
submitButton ==
  /\ ~(isLoading \/ trim(input) = <<>> \/ Len(documents) = 0)
  /\ \E id \in Ids : SetChat(handleSubmit(Chat, input, isLoading, id))
  /\ op' = [name |-> "submit", seen |-> <<input>>]
  /\ UNCHANGED pending
  /\ UNCHANGED docVars

\* handleSelectSuggestion: setInput and the first setTimeout; the closure
\* keeps the handleSubmit of the render the click happened in
handleSelectSuggestion(k) ==
  /\ k \in 1..Min(MaxSuggestion, Len(SUGGESTED_QUESTIONS))
  /\ Len(messages) = 0 /\ Len(documents) > 0
  /\ Len(pending) < MaxPending
  /\ input' = SUGGESTED_QUESTIONS[k]
  /\ pending' = Append(pending, [stage |-> 1, question |-> SUGGESTED_QUESTIONS[k],
                                 input |-> input, isLoading |-> isLoading])
  /\ op' = [name |-> "handleSelectSuggestion"]
  /\ UNCHANGED <<messages, isLoading, error, calls>>
  /\ UNCHANGED docVars

\* the 50 ms callback: focus, then the second setTimeout
suggestionFocus ==
  /\ \E i \in 1..Len(pending) :
       /\ pending[i].stage = 1
       /\ \A j \in 1..(i - 1) : pending[j].stage = 2
       /\ pending' = [pending EXCEPT ![i].stage = 2]
  /\ op' = [name |-> "suggestionFocus"]
  /\ UNCHANGED <<messages, input, isLoading, error, calls>>
  /\ UNCHANGED docVars

\* the 100 ms callback: the synthesized keydown reaches onKeyDown of the
\* current render when delivered, then the captured handleSubmit is called
suggestionFire(delivered) ==
  /\ pending # <<>>
  /\ Head(pending).stage = 2
  /\ (~textareaDisabled => delivered)
  /\ \E id1, id2 \in Ids :
       LET afterKey == IF delivered
                       THEN handleSubmit(Chat, input, isLoading, id1)
                       ELSE Chat
           afterCall == handleSubmit(afterKey, Head(pending).input,
                                     Head(pending).isLoading, id2)
       IN SetChat(afterCall)
  /\ pending' = Tail(pending)
  /\ op' = [name |-> "suggestionFire", question |-> Head(pending).question,
            seen |-> (IF delivered THEN <<input>> ELSE <<>>) \o <<Head(pending).input>>]
  /\ UNCHANGED docVars

\* the agent message built from result.response
agentMessage(id, response) ==
  LET result == response.result
      field(opt) == IF result = Absent THEN Absent ELSE opt
  IN [id |-> id,
      type |-> "agent",
      content |-> IF result # Absent /\ result[1].answer # Absent /\ result[1].answer[1] # <<>>
                  THEN result[1].answer[1]
                  ELSE IF response.kind = "string" THEN response.str
                  ELSE <<"No response received">>,
      sources |-> IF result # Absent /\ result[1].sources # Absent
                  THEN result[1].sources ELSE Some(<<>>),
      confidence |-> IF result = Absent THEN Absent ELSE result[1].confidence,
      relatedTopics |-> IF result = Absent THEN Absent ELSE result[1].related_topics,
      followUpQuestions |-> IF result = Absent THEN Absent
                            ELSE result[1].follow_up_questions]

\* handleSubmit after its await with setIsLoading(false) at the end of the try
\* block and not in a finally: a rejection leaves isLoading as it is
querySettledNoFinally(i, r) ==
  /\ i \in 1..Len(calls)
  /\ calls' = RemoveAt(calls, i)
  /\ IF r.thrown
     THEN /\ error' = Some(IF r.isError THEN r.message ELSE "Search failed")
          /\ messages' = messages
     ELSE IF r.success /\ TruthyPayload(r.response)
     THEN /\ \E id \in Ids : messages' = Append(messages, agentMessage(id, r.response))
          /\ error' = error
     ELSE /\ error' = Some(OrElse(r.error, "Failed to get response"))
          /\ messages' = messages
  /\ isLoading' = IF r.thrown THEN isLoading ELSE FALSE
  /\ op' = [name |-> "querySettled", response |-> r.response,
            ok |-> (~r.thrown /\ r.success /\ TruthyPayload(r.response))]
  /\ UNCHANGED <<input, pending>>
  /\ UNCHANGED docVars

\* handleSubmit after its await, for the i-th outstanding call
querySettled(i, r) ==
  /\ i \in 1..Len(calls)
  /\ calls' = RemoveAt(calls, i)
  /\ IF r.thrown
     THEN /\ error' = Some(IF r.isError THEN r.message ELSE "Search failed")
          /\ messages' = messages
     ELSE IF r.success /\ TruthyPayload(r.response)
     THEN /\ \E id \in Ids : messages' = Append(messages, agentMessage(id, r.response))
          /\ error' = error
     ELSE /\ error' = Some(OrElse(r.error, "Failed to get response"))
          /\ messages' = messages
  /\ isLoading' = FALSE
  /\ op' = [name |-> "querySettled", response |-> r.response,
            ok |-> (~r.thrown /\ r.success /\ TruthyPayload(r.response))]
  /\ UNCHANGED <<input, pending>>
  /\ UNCHANGED docVars

\* handleClearChat that also empties the draft
handleClearChatDraft ==
  /\ Len(messages) > 0 /\ ~isLoading
  /\ messages' = <<>>
  /\ error' = Absent
  /\ input' = <<>>
  /\ op' = [name |-> "handleClearChat"]
  /\ UNCHANGED <<isLoading, calls, pending>>
  /\ UNCHANGED docVars

\* handleClearChat, from the Clear Chat button
handleClearChat ==
  /\ Len(messages) > 0 /\ ~isLoading
  /\ messages' = <<>>
  /\ error' = Absent
  /\ op' = [name |-> "handleClearChat"]
  /\ UNCHANGED <<input, isLoading, calls, pending>>
  /\ UNCHANGED docVars

\* the dismiss button of the error banner
dismissError ==
  /\ error # Absent /\ Truthy(error[1])
  /\ error' = Absent
  /\ op' = [name |-> "dismissError"]
  /\ UNCHANGED <<messages, input, isLoading, calls, pending>>
  /\ UNCHANGED docVars

\* --------------------------------------------------------- specifications
OkUpload == CHOOSE r \in UploadOutcomes : ~r.thrown /\ r.success

\* the upload side
NextUpload ==
  \/ \E d \in FileLists(PdfFiles \cup OtherFiles) : handleDrop(d)
  \/ \E f \in FileLists(PdfFiles \cup OtherFiles) : handleFileSelect(f)
  \/ \E i \in 1..MaxUploads, inc \in Increments : progressTick(i, inc)
  \/ \E i \in 1..MaxUploads, r \in UploadOutcomes : uploadSettled(i, r)
  \/ progressReset
  \/ \E i \in 1..MaxDocs : deleteButton(i)
  \/ dismissError

\* the chat side
NextChat ==
  \/ \E t \in Texts : setInput(t)
  \/ submitKey
  \/ submitButton
  \/ \E k \in 1..Len(SUGGESTED_QUESTIONS) : handleSelectSuggestion(k)
  \/ suggestionFocus
  \/ \E delivered \in BOOLEAN : suggestionFire(delivered)
  \/ \E i \in 1..MaxMsgs, r \in QueryOutcomes : querySettled(i, r)
  \/ handleClearChat

Next == NextUpload \/ NextChat

Spec == Init /\ [][Next]_vars

SpecUpload == Init /\ [][NextUpload]_vars

\* the uploads of the chat-side specifications: of one PDF file into an empty
\* document list, one at a time, succeeding between two ticks; and deletion
LeanUpload ==
  \/ \E f \in {l \in FileLists(PdfFiles) : Len(l) = 1} :
       documents = <<>> /\ uploads = <<>> /\ resetTimers = 0 /\ handleFileSelect(f)
  \/ uploadSettled(1, OkUpload)
  \/ progressReset
  \/ \E i \in 1..MaxDocs : deleteButton(i)

\* typing and submitting by key or button, with every outcome of the query;
\* a question is asked in an empty chat only (Clear Chat comes between two
\* questions) and a blank input is submitted at any time
NextSubmit ==
  \/ LeanUpload
  \/ \E t \in Texts : setInput(t)
  \/ (messages = <<>> \/ trim(input) = <<>>) /\ submitKey
  \/ messages = <<>> /\ submitButton
  \/ \E i \in 1..MaxMsgs, r \in QueryOutcomes : querySettled(i, r)
  \/ handleClearChat
  \/ dismissError

SpecSubmit == Init /\ [][NextSubmit]_vars

\* the document lists earlier uploads leave behind
DocLists ==
  UNION {[1..n -> {[id |-> id, name |-> f.name, size |-> f.size] :
                     id \in Ids, f \in PdfFiles \cup OtherFiles}] :
         n \in 0..MaxList}

\* the document list alone, from any list earlier uploads left behind:
\* uploads that succeed, and handleDeleteDocument as the function of its
\* argument, called with any id
InitDocs ==
  /\ documents \in DocLists
  /\ messages = <<>> /\ input = <<>> /\ isLoading = FALSE
  /\ uploadProgress = 0 /\ isUploading = FALSE /\ error = Absent
  /\ uploads = <<>> /\ resetTimers = 0
  /\ calls = <<>> /\ pending = <<>>
  /\ op = [name |-> "init"]

NextDocs ==
  \/ \E f \in FileLists(PdfFiles \cup OtherFiles) : handleFileSelect(f)
  \/ \E i \in 1..MaxUploads : uploadSettled(i, OkUpload)
  \/ progressReset
  \/ \E id \in Ids : handleDeleteDocument(id)

SpecDocs == InitDocs /\ [][NextDocs]_vars

\* the same steps from the empty document list of a fresh page
SpecAppend == Init /\ [][NextDocs]_vars

\* uploads one after the other, each started once the one before it has
\* settled, with their intervals and delayed resets
NextTimers ==
  \/ \E f \in FileLists(PdfFiles) : Outstanding = <<>> /\ handleFileSelect(f)
  \/ \E i \in 1..MaxUploads, inc \in Increments : progressTick(i, inc)
  \/ \E i \in 1..MaxUploads, r \in UploadOutcomes : uploadSettled(i, r)
  \/ progressReset

SpecTimers == Init /\ [][NextTimers]_vars

\* every callAIAgent call resolves or rejects in the end
queryResolves == \E i \in 1..MaxMsgs, r \in QueryOutcomes : querySettled(i, r)

SpecSubmitFair == SpecSubmit /\ WF_vars(queryResolves)

ShortTexts == {t \in Texts : Len(t) <= 1}
OkQuery == CHOOSE r \in QueryOutcomes :
             /\ ~r.thrown /\ r.success /\ r.response.result # Absent
             /\ r.response.result[1].answer = Some(<<"X">>)
FailedQuery == CHOOSE r \in QueryOutcomes :
                 ~r.thrown /\ ~r.success /\ r.error = Absent

\* suggested questions beside typed drafts, with one success and one failure
\* of the query
NextSuggest ==
  \/ LeanUpload
  \/ \E t \in ShortTexts : setInput(t)
  \/ submitKey
  \/ submitButton
  \/ \E k \in 1..Len(SUGGESTED_QUESTIONS) : handleSelectSuggestion(k)
  \/ suggestionFocus
  \/ \E delivered \in BOOLEAN : suggestionFire(delivered)
  \/ \E i \in 1..MaxMsgs, r \in {OkQuery, FailedQuery} : querySettled(i, r)
  \/ handleClearChat

SpecSuggest == Init /\ [][NextSuggest]_vars

FailedUpload == CHOOSE r \in UploadOutcomes :
                  ~r.thrown /\ ~r.success /\ r.error = Absent
FastTick == CHOOSE inc \in Increments : \A other \in Increments : other <= inc

\* every id drawn so far is the first value of the range
SameIds ==
  /\ \A k \in 1..Len(documents) : documents[k].id = 1
  /\ \A k \in 1..Len(messages) : messages[k].id = 1

\* both sides at once: uploads of one PDF file with their ticks, success,
\* failure and reset, removal, and beside them typing, submitting, the first
\* suggested question and both outcomes of the query; Math.random() gives the
\* same id each time and one suggestion is pending at a time
NextBoth ==
  \/ \E f \in {l \in FileLists(PdfFiles) : Len(l) = 1} :
       documents = <<>> /\ uploads = <<>> /\ resetTimers = 0 /\ handleFileSelect(f)
  \/ progressTick(1, FastTick)
  \/ \E r \in {OkUpload, FailedUpload} : uploadSettled(1, r) /\ SameIds'
  \/ progressReset
  \/ deleteButton(1)
  \/ \E t \in ShortTexts : setInput(t)
  \/ submitKey /\ SameIds'
  \/ submitButton /\ SameIds'
  \/ pending = <<>> /\ handleSelectSuggestion(1)
  \/ suggestionFocus
  \/ \E delivered \in BOOLEAN : suggestionFire(delivered) /\ SameIds'
  \/ \E r \in {OkQuery, FailedQuery} : querySettled(1, r) /\ SameIds'

SpecBoth == Init /\ [][NextBoth]_vars

\* ------------------------------------------------------------------ claims
\* the entries a step appends to messages
Appended ==
  IF Len(messages') >= Len(messages)
  THEN SubSeq(messages', Len(messages) + 1, Len(messages'))
  ELSE <<>>

\* the callAIAgent calls a step issues, by their text
Issued ==
  IF Len(calls') >= Len(calls)
  THEN SubSeq(calls', Len(calls) + 1, Len(calls'))
  ELSE <<>>

UserEntries(entries) == SelectSeq(entries, LAMBDA m : m.type = "user")
Contents(entries) == [k \in 1..Len(entries) |-> entries[k].content]

\* C1: at most one callAIAgent call is outstanding, and a step taken while
\* one is outstanding appends no user entry and issues no call.
C1_SingleFlightQuery ==
  [][ /\ Len(calls') <= 1
      /\ Len(calls) >= 1 => (UserEntries(Appended) = <<>> /\ Issued = <<>>) ]_vars

\* C2: when the timers of a selected question q fire in a quiet session
\* (nothing outstanding, a document present, the textarea still holding q),
\* exactly one user entry with text q is appended and callAIAgent is called
\* exactly once, with q, whatever the textarea held before the selection.
C2_OneSubmissionPerSelection ==
  [][ ( /\ op'.name = "suggestionFire"
        /\ ~isLoading /\ calls = <<>> /\ Len(documents) > 0
        /\ ~Head(pending).isLoading
        /\ input = Head(pending).question )
      => ( /\ Contents(Appended) = <<Head(pending).question>>
           /\ UserEntries(Appended) = Appended
           /\ Issued = <<Head(pending).question>> ) ]_vars

\* C3: every step that appends a user entry or calls callAIAgent is taken
\* with at least one document present.
C3_NoSubmissionWithoutDocuments ==
  [][ (UserEntries(Appended) # <<>> \/ Issued # <<>>) => Len(documents) > 0 ]_vars

\* C4: while an uploadFiles call is outstanding (and no earlier upload awaits
\* its reset) uploadProgress is at most 90.
C4_ProgressCappedWhileUploading ==
  (Outstanding # <<>> /\ resetTimers = 0) => uploadProgress <= ProgressStop

\* C5: with no upload outstanding and no successful upload awaiting its
\* delayed reset, uploadProgress is 0.
C5_ProgressZeroWhenIdle ==
  (Outstanding = <<>> /\ resetTimers = 0) => uploadProgress = 0

\* C6: when a callAIAgent call settles as a failure (thrown, success false,
\* or a payload that is neither object nor string) no entry is appended,
\* error is set to a non-empty message and isLoading is false; when it
\* settles with a well-formed payload exactly one agent entry is appended
\* and error stays absent.
FailedOutcome(r) ==
  r.thrown \/ ~r.success \/ r.response.kind = "number"
WellFormedOutcome(r) ==
  /\ ~r.thrown /\ r.success
  /\ \/ r.response.kind = "object"
     \/ r.response.kind = "string" /\ r.response.str # <<>>
C6_QueryOutcomeRouting ==
  [][ \A i \in 1..Len(calls), r \in QueryOutcomes :
        querySettled(i, r) =>
          /\ FailedOutcome(r) =>
               /\ messages' = messages
               /\ error' # Absent /\ error'[1] # ""
               /\ ~isLoading'
          /\ WellFormedOutcome(r) =>
               /\ Len(Appended) = 1 /\ Appended[1].type = "agent"
               /\ SubSeq(messages', 1, Len(messages)) = messages
               /\ error' = Absent
               /\ ~isLoading' ]_vars

\* C7: a submission made while the input is empty or only whitespace changes
\* none of messages, error, input, isLoading and issues no callAIAgent call.
C7_BlankSubmitIsNoOp ==
  [][ (op'.name = "submit" /\ trim(input) = <<>>)
      => UNCHANGED <<messages, error, input, isLoading, calls>> ]_vars

\* C7 witness: Ctrl/Cmd+Enter was pressed on a whitespace-only input and the
\* input is still there.
C7_Witness ==
  /\ op.name = "submit"
  /\ op.seen = << <<" ", " ">> >>
  /\ input = <<" ", " ">>
  /\ calls = <<>> /\ ~isLoading

\* C8: an accepted submission appends a user entry whose text is the input
\* with leading and trailing whitespace removed, empties the input and
\* clears error.
C8_AcceptedSubmission ==
  [][ (op'.name = "submit" /\ Len(messages') = Len(messages) + 1)
      => /\ messages'[Len(messages')].type = "user"
         /\ messages'[Len(messages')].content = trim(input)
         /\ input' = <<>>
         /\ error' = Absent ]_vars

\* C9: at most one uploadFiles call, with its interval, is outstanding, and
\* an upload action taken while one is outstanding or awaiting its reset
\* starts nothing.
C9_SingleFlightUpload ==
  [][ /\ Len(Outstanding') <= 1
      /\ (op'.name \in {"handleDrop", "handleFileSelect"}
          /\ (Outstanding # <<>> \/ resetTimers > 0)) => uploads' = uploads ]_vars

\* C10: a failed upload leaves documents as it was and sets error to a
\* non-empty message.
C10_FailedUpload ==
  [][ (op'.name = "uploadSettled" /\ ~op'.ok)
      => /\ documents' = documents
         /\ error' # Absent /\ error'[1] # "" ]_vars

\* C11: a successful upload of n files makes documents the previous documents,
\* unchanged and in their order, followed by exactly n new documents, one per
\* file in file order, each with that file's name and size.
C11_UploadAppendsOnePerFile ==
  [][ (op'.name = "uploadSettled" /\ op'.ok)
      => \E i \in 1..Len(uploads) :
           /\ uploads' = RemoveAt(uploads, i)
           /\ LET files == uploads[i].files
                  n == Len(files)
                  old == Len(documents)
              IN /\ Len(documents') = old + n
                 /\ SubSeq(documents', 1, old) = documents
                 /\ \A k \in 1..n :
                      /\ documents'[old + k].name = files[k].name
                      /\ documents'[old + k].size = files[k].size ]_vars

\* two files of different names uploaded at once and listed in file order
C11_Witness ==
  /\ op.name = "uploadSettled" /\ op.ok /\ op.n = 2
  /\ uploads = <<>>
  /\ Len(documents) = 2
  /\ documents[1].name = "x.pdf" /\ documents[2].name = "n.txt"

\* the ids of the listed documents
DocIds(docs) == {docs[k].id : k \in 1..Len(docs)}

\* C12: removing a document is idempotent: a removal by an id that no document
\* has leaves documents unchanged, and a second removal by the same id right
\* after the first changes nothing more.
C12_RemoveIdempotent ==
  [][ (op'.name = "handleDeleteDocument")
      => /\ (op'.id \notin DocIds(documents) => documents' = documents)
         /\ (op.name = "handleDeleteDocument" /\ op.id = op'.id
               => documents' = documents) ]_vars

\* a removal by an id that no document had has run on a list of documents
C12_Witness ==
  /\ op.name = "handleDeleteDocument"
  /\ op.removed = 0
  /\ documents # <<>>
  /\ op.id \notin DocIds(documents)

\* C13: removing an id that exactly one document has shortens documents by
\* exactly one, removes only that document, and keeps the other documents in
\* their relative order.
C13_RemoveExactlyOne ==
  [][ (/\ op'.name = "handleDeleteDocument"
       /\ Cardinality({k \in 1..Len(documents) : documents[k].id = op'.id}) = 1)
      => /\ Len(documents') = Len(documents) - 1
         /\ \E k \in 1..Len(documents) :
              /\ documents[k].id = op'.id
              /\ documents' = RemoveAt(documents, k) ]_vars

\* one document was removed and two different ones are left
C13_Witness ==
  /\ op.name = "handleDeleteDocument"
  /\ op.removed = 1
  /\ Len(documents) = 2
  /\ documents[1] # documents[2]

\* C14: the agent entry of a successful query follows the fallback chain: its
\* text is result.answer whenever the payload has that field, whatever string
\* it holds, else the payload itself when it is a string, else "No response
\* received"; its sources are result.sources when present, else empty; its
\* confidence, relatedTopics and followUpQuestions are absent when the payload
\* has none.
C14_ParseFallbackChain ==
  [][ (op'.name = "querySettled" /\ op'.ok)
      => LET p == op'.response
             has(f) == p.result # Absent /\ p.result[1][f] # Absent
             m == messages'[Len(messages')]
         IN /\ Len(messages') = Len(messages) + 1
            /\ m.type = "agent"
            /\ m.content = IF has("answer") THEN p.result[1].answer[1]
                           ELSE IF p.kind = "string" THEN p.str
                           ELSE <<"No response received">>
            /\ m.sources = IF has("sources") THEN p.result[1].sources
                           ELSE Some(<<>>)
            /\ (~has("confidence") => m.confidence = Absent)
            /\ (~has("related_topics") => m.relatedTopics = Absent)
            /\ (~has("follow_up_questions") => m.followUpQuestions = Absent) ]_vars

\* C15: Clear Chat empties messages and error and leaves documents,
\* uploadProgress, isUploading, input and isLoading as they were.
C15_ClearChatFrame ==
  [][ (op'.name = "handleClearChat")
      => /\ messages' = <<>>
         /\ error' = Absent
         /\ UNCHANGED <<documents, uploadProgress, isUploading, input,
                        isLoading>> ]_vars

\* the chat was cleared over a typed draft while an upload was running
C15_Witness ==
  /\ op.name = "handleClearChat"
  /\ messages = <<>> /\ error = Absent
  /\ input # <<>>
  /\ isUploading

\* C16: once the uploadFiles call of an upload has settled, no tick of that
\* upload's interval changes uploadProgress, and neither a tick nor a delayed
\* reset left over from an earlier upload changes uploadProgress while a later
\* upload is outstanding.
C16_NoStaleTimerWrites ==
  [][ /\ (op'.name = "progressTick" /\ op'.settled)
           => uploadProgress' = uploadProgress
      /\ (op'.name = "progressReset" /\ Outstanding # <<>>)
           => uploadProgress' = uploadProgress ]_vars

\* C17: in messages every agent entry comes right after a user entry, so the
\* log is a sequence of blocks (user) or (user, agent).
C17_NoInterleaving ==
  \A k \in 1..Len(messages) :
    messages[k].type = "agent" => (k > 1 /\ messages[k - 1].type = "user")

\* C18: every submission terminates: given that each callAIAgent call settles,
\* isLoading true leads to isLoading false, and the step that settles a call
\* ends with isLoading false and does exactly one of two things: it appends
\* one agent entry and leaves error alone, or it appends nothing and sets
\* error.
C18_SubmissionTerminates ==
  /\ isLoading ~> ~isLoading
  /\ [][ (op'.name = "querySettled")
         => /\ ~isLoading'
            /\ \/ /\ Len(messages') = Len(messages) + 1
                  /\ SubSeq(messages', 1, Len(messages)) = messages
                  /\ messages'[Len(messages')].type = "agent"
                  /\ error' = error
               \/ /\ messages' = messages
                  /\ error' # Absent ]_vars

\* a query has settled by setting error, and the submission is over
C18_Witness ==
  /\ op.name = "querySettled" /\ ~op.ok
  /\ ~isLoading
  /\ error # Absent
  /\ Len(messages) = 1 /\ messages[1].type = "user"

\* C19: the ids of the documents are pairwise distinct and the ids of the
\* messages are pairwise distinct, whatever ids Math.random() yields.
C19_IdsPairwiseDistinct ==
  /\ \A j, k \in 1..Len(documents) : documents[j].id = documents[k].id => j = k
  /\ \A j, k \in 1..Len(messages) : messages[j].id = messages[k].id => j = k

\* C20: messages is append-only: every step but Clear Chat keeps the previous
\* messages as a prefix of the new ones and appends at most one entry.
C20_AppendOnly ==
  [][ (op'.name # "handleClearChat")
      => /\ Len(messages') >= Len(messages)
         /\ SubSeq(messages', 1, Len(messages)) = messages
         /\ Len(messages') <= Len(messages) + 1 ]_vars

\* the handlers of the document side and of the chat side, by the name they
\* leave in op
DocumentOps == {"handleDrop", "handleFileSelect", "progressTick",
                "uploadSettled", "progressReset", "handleDeleteDocument"}
ChatOps == {"submit", "handleSelectSuggestion", "suggestionFocus",
            "suggestionFire", "querySettled"}

\* C21: the two sides do not write each other's state: starting an upload, its
\* ticks, its success or failure, its delayed reset and a removal leave
\* messages, input and isLoading alone; a submission, the settling of its
\* query and the selection of a suggestion with its timers leave documents,
\* uploadProgress and isUploading alone.
C21_SidesDoNotInterfere ==
  [][ /\ (op'.name \in DocumentOps => UNCHANGED <<messages, input, isLoading>>)
      /\ (op'.name \in ChatOps
            => UNCHANGED <<documents, uploadProgress, isUploading>>) ]_vars

\* an upload ticks while a query is outstanding and its question is in the log
C21_Witness ==
  /\ op.name = "progressTick"
  /\ uploadProgress > 0 /\ isUploading
  /\ isLoading /\ calls # <<>> /\ messages # <<>>

\* C22: updates of documents that overlap an outstanding upload are both kept.
\* When an upload succeeds right after a removal made while it was
\* outstanding, or right after the success of another upload it overlapped,
\* the list it finds (without the removed document, with the other upload's
\* documents) is kept whole and only grows by this upload's documents; and a
\* removal made while an upload is outstanding leaves that upload alone.
C22_OverlappingUpdatesKept ==
  [][ /\ ( /\ op'.name = "uploadSettled" /\ op'.ok
           /\ \/ op.name = "handleDeleteDocument" /\ op.removed > 0
              \/ op.name = "uploadSettled" /\ op.ok /\ op.n > 0 )
         => /\ Len(documents') = Len(documents) + op'.n
            /\ SubSeq(documents', 1, Len(documents)) = documents
            /\ (op.name = "handleDeleteDocument"
                  => \A k \in 1..Len(documents) : documents'[k].id # op.id)
      /\ (op'.name = "handleDeleteDocument" /\ Outstanding # <<>>)
         => uploads' = uploads ]_vars

\* a document was removed while an upload of a file was outstanding
C22_Witness ==
  /\ op.name = "handleDeleteDocument" /\ op.removed > 0
  /\ \E i \in 1..Len(Outstanding) : Len(Outstanding[i].files) > 0

\* C23: when callAIAgent resolves with success true and a response that is
\* absent or the empty string, the submission fails: no entry is appended,
\* error is set to the error text of the result or, when the result has none
\* (or an empty one), to "Failed to get response", and isLoading is false.
EmptyResponse(r) ==
  /\ ~r.thrown /\ r.success
  /\ \/ r.response.kind = "absent"
     \/ r.response.kind = "string" /\ r.response.str = <<>>
C23_EmptyResponseIsFailure ==
  [][ \A i \in 1..Len(calls), r \in QueryOutcomes :
        (querySettled(i, r) /\ EmptyResponse(r))
          => /\ messages' = messages
             /\ error' = IF r.error # Absent /\ r.error[1] # ""
                         THEN r.error
                         ELSE Some("Failed to get response")
             /\ ~isLoading' ]_vars

\* a query resolved with the empty string as its response and the submission
\* ended with the fallback message
C23_Witness ==
  /\ op.name = "querySettled" /\ ~op.ok
  /\ op.response.kind = "string" /\ op.response.str = <<>>
  /\ error = Some("Failed to get response")
  /\ ~isLoading
  /\ Len(messages) = 1 /\ messages[1].type = "user"

====
